---- MODULE Spec2Model ----
(***************************************************************************)
(* Resume Roaster: the asynchronous job lifecycle and the status-polling   *)
(* protocol.  The backend job store and orchestrator (server.py) are not   *)
(* part of the sources at hand and are modelled from the specification;    *)
(* the client (src/lib/api.ts, src/pages/Generate.tsx and the simulated    *)
(* pages) is modelled from its code.                                       *)
(***************************************************************************)
EXTENDS Integers, Sequences, FiniteSets, Bags, TLC

\* ------------------------------------------------------------------ bounds
MaxJobs == 2          \* jobs the backend accepts in one run
MaxReads == 3         \* status requests a client sends in one run
MaxPolled == 1        \* jobs in the store while a client polls
MaxReruns == 1        \* times the Generate page's effect runs again for a new jobId
MaxNavReads == 2      \* status requests of a Generate page that is navigated

\* ---------------------------------------------------------------- constants
MaxUploadMB == 10     \* "Supported format: PDF (Max 10MB)"

\* ------------------------------------------------------- values and shapes
Absent == "<absent>"  \* an optional field that is undefined
NoScore == -1         \* the optional score when undefined

\* api.ts JobStatus.status, in pipeline order; "failed" stands apart
StatusOrder == <<"pending", "analyzing", "roasting", "generating", "completed">>
AllStatuses == {StatusOrder[i] : i \in 1..Len(StatusOrder)} \cup {"failed"}
Terminal(s) == s \in {"completed", "failed"}

StageIndex(s) == CHOOSE i \in 1..Len(StatusOrder) : StatusOrder[i] = s

\* the description a failing stage raises (a failure may carry an empty one)
FailureTexts == {"Could not parse resume", ""}
\* what the last stage hands over: roast text and score
StageOutputs == {[roast_text |-> "roast A", score |-> 40],
                 [roast_text |-> "roast B", score |-> 85]}

VARIABLES
  jobs,          \* Job Store: job id -> job record (shape of api.ts JobStatus)
  seen,          \* job id -> <<payload>> of the first status read made once terminal
  simStage,      \* simulated Generate page: processingStage
  simVideoUrl,   \* simulated Generate page: videoUrl
  simPc,         \* simulated Generate page: position inside processVideo
  net,           \* bag of status requests in flight (sent, or answered and on the way back)
  reqSeq,        \* number of status requests sent so far
  pollJobId,     \* pollJobStatus: the jobId argument (0: not called yet)
  pollOnProgress,\* pollJobStatus: whether an onProgress callback was supplied
  pollTimers,    \* pollJobStatus: timers scheduled by setTimeout and not yet fired
  promise,       \* pollJobStatus: the returned promise
  pollLog,       \* pollJobStatus: what the run did, in order
  pollAbandoned, \* pollJobStatus: the caller stopped waiting for the promise
  genPhase,      \* Generate page: "closed", "mounted" or "unmounted"
  genJobId,      \* Generate page: jobId of the search params (0: none)
  genEpoch,      \* Generate page: number of effect runs so far
  pollInterval,  \* Generate page: effect run whose interval is active (0: none)
  processingStage, \* Generate page state
  videoUrl,      \* Generate page state
  error,         \* Generate page state
  toasts,        \* Generate page: number of toast.success and toast.error calls
  navigated,     \* Generate page: navigate("/") was called
  uploadedFile,  \* Index page state: the selected file (NoFile: null)
  backgroundVideo, \* Index page state
  isUploading,   \* UploadSection state
  upNet,         \* bag of upload requests in flight
  upJobId,       \* UploadSection: job id it navigated to (0: it has not navigated)
  upToast,       \* UploadSection: text of the last toast shown (Absent: none)
  probe,         \* a direct caller of getJobStatus / getResult: its last call
  idxUploadedFile,    \* simulated Index page state: uploadedFile (NoFile: null)
  idxProcessingStage, \* simulated Index page state: processingStage (Absent: null)
  idxVideoUrl,        \* simulated Index page state: videoUrl (Absent: null)
  idxShowUpload,      \* simulated Index page state: showUpload
  idxTimers           \* simulated Index page: bag of pending startProcessing timers

storeVars == <<jobs, seen>>
simVars == <<simStage, simVideoUrl, simPc>>
netVars == <<net, reqSeq>>
pollVars == <<pollJobId, pollOnProgress, pollTimers, promise, pollLog, pollAbandoned>>
genVars == <<genPhase, genJobId, genEpoch, pollInterval, processingStage,
             videoUrl, error, toasts, navigated>>
idxVars == <<idxUploadedFile, idxProcessingStage, idxVideoUrl, idxShowUpload, idxTimers>>
upVars == <<uploadedFile, backgroundVideo, isUploading, upNet, upJobId, upToast>>
vars == <<jobs, seen, simStage, simVideoUrl, simPc, net, reqSeq,
          pollJobId, pollOnProgress, pollTimers, promise, pollLog, pollAbandoned,
          genPhase, genJobId, genEpoch, pollInterval, processingStage,
          videoUrl, error, toasts, navigated,
          uploadedFile, backgroundVideo, isUploading, upNet, upJobId, upToast,
          probe,
          idxUploadedFile, idxProcessingStage, idxVideoUrl, idxShowUpload, idxTimers>>

\* ------------------------------------------------------------- Job Store
StageProgress(s) ==
  CASE s = "pending" -> 0
    [] s = "analyzing" -> 25
    [] s = "roasting" -> 50
    [] s = "generating" -> 75
    [] s = "completed" -> 100

StageMessage(s) ==
  CASE s = "pending" -> "Queued"
    [] s = "analyzing" -> "Analyzing resume"
    [] s = "roasting" -> "Generating roast"
    [] s = "generating" -> "Creating video"
    [] s = "completed" -> "Roast complete"

NewJob(id) ==
  [job_id |-> id, status |-> "pending", progress |-> StageProgress("pending"),
   message |-> StageMessage("pending"), video_url |-> Absent,
   roast_text |-> Absent, score |-> NoScore, error |-> Absent]

HasResult(j) == j.video_url # Absent \/ j.roast_text # Absent \/ j.score # NoScore
HasError(j) == j.error # Absent

Issued == DOMAIN jobs

\* create() -> id : ids are handed out in sequence and never reused
CreateJobUpTo(limit) ==
  /\ Cardinality(Issued) < limit
  /\ LET id == Cardinality(Issued) + 1
     IN jobs' = jobs @@ (id :> NewJob(id))
  /\ seen' = seen @@ ((Cardinality(Issued) + 1) :> <<>>)
  /\ UNCHANGED <<simVars, idxVars, netVars, pollVars, genVars, upVars, probe>>

CreateJob == CreateJobUpTo(MaxJobs)
CreateJobPolled == CreateJobUpTo(MaxPolled)

\* the status that follows s in the pipeline
NextStatus(s) == StatusOrder[StageIndex(s) + 1]

\* mutant: the roast text is published as soon as the roasting stage is done
Advanced_earlyText(j, out) ==
  LET n == NextStatus(j.status)
      base == [j EXCEPT !.status = n, !.progress = StageProgress(n),
                        !.message = StageMessage(n)]
  IN IF n = "completed"
       THEN [base EXCEPT !.roast_text = out.roast_text, !.score = out.score,
                         !.video_url = "/api/video"]
     ELSE IF n = "generating"
       THEN [base EXCEPT !.roast_text = out.roast_text]
     ELSE base

\* the record after the running stage succeeded (out: the last stage's output)
Advanced(j, out) ==
  LET n == NextStatus(j.status)
      base == [j EXCEPT !.status = n, !.progress = StageProgress(n),
                        !.message = StageMessage(n)]
  IN IF n = "completed"
       THEN [base EXCEPT !.roast_text = out.roast_text, !.score = out.score,
                         !.video_url = "/api/video"]
       ELSE base

\* the orchestrator starts the next stage, or completes the job
AdvanceStage(id) ==
  /\ id \in Issued
  /\ ~Terminal(jobs[id].status)
  /\ \E out \in StageOutputs : jobs' = [jobs EXCEPT ![id] = Advanced(jobs[id], out)]
  /\ UNCHANGED <<seen, simVars, idxVars, netVars, pollVars, genVars, upVars, probe>>

\* mutant: the failure is noted but the status is left as it was
Failed_keepsStatus(j, e) == [j EXCEPT !.error = e]

\* the record after a stage raised failure text e
Failed(j, e) ==
  [j EXCEPT !.status = "failed",
            !.message = "Processing failed",
            !.error = e]

\* mutant: a failure raised after completion (cleanup) still marks the job failed
FailStage_afterCompletion(id) ==
  /\ id \in Issued
  /\ jobs[id].status # "failed"
  /\ \E e \in FailureTexts : jobs' = [jobs EXCEPT ![id] = Failed(jobs[id], e)]
  /\ UNCHANGED <<seen, simVars, idxVars, netVars, pollVars, genVars, upVars, probe>>

\* a stage raises: the orchestrator records the failure, nothing runs after
FailStage(id) ==
  /\ id \in Issued
  /\ ~Terminal(jobs[id].status)
  /\ \E e \in FailureTexts : jobs' = [jobs EXCEPT ![id] = Failed(jobs[id], e)]
  /\ UNCHANGED <<seen, simVars, idxVars, netVars, pollVars, genVars, upVars, probe>>

\* GET /api/status/{id}: the payload for a job of the store
StatusPayload(id) == jobs[id]

\* a client reads the status of a job of the store; the first read of a
\* terminal job is remembered
StatusRead(id) ==
  /\ id \in Issued
  /\ Terminal(jobs[id].status)
  /\ seen[id] = <<>>
  /\ seen' = [seen EXCEPT ![id] = <<StatusPayload(id)>>]
  /\ UNCHANGED <<jobs, simVars, idxVars, netVars, pollVars, genVars, upVars, probe>>

\* ------------------------------------------- simulated Generate page
\* mutant: the first await is followed by the second stage change
SimAfterAwait_skipsRoasting(pc) ==
  CASE pc = 1 -> [stage |-> "generating", url |-> Absent, pc |-> 3]
    [] pc = 2 -> [stage |-> "generating", url |-> Absent, pc |-> 3]
    [] pc = 3 -> [stage |-> "complete", url |-> "https://example.com/video.mp4", pc |-> 4]

\* mutant: the last await never completes the video
SimAfterAwait_stalls(pc) ==
  CASE pc = 1 -> [stage |-> "roasting", url |-> Absent, pc |-> 2]
    [] pc = 2 -> [stage |-> "generating", url |-> Absent, pc |-> 3]
    [] pc = 3 -> [stage |-> "generating", url |-> Absent, pc |-> 3]

\* processVideo: three awaits of 2 s, each followed by a stage change
SimAfterAwait(pc) ==
  CASE pc = 1 -> [stage |-> "roasting", url |-> Absent, pc |-> 2]
    [] pc = 2 -> [stage |-> "generating", url |-> Absent, pc |-> 3]
    [] pc = 3 -> [stage |-> "complete", url |-> "https://example.com/video.mp4", pc |-> 4]

ProcessVideoStep ==
  /\ simPc \in 1..3
  /\ LET r == SimAfterAwait(simPc)
     IN /\ simStage' = r.stage
        /\ simVideoUrl' = (IF r.url = Absent THEN simVideoUrl ELSE r.url)
        /\ simPc' = r.pc
  /\ UNCHANGED <<storeVars, idxVars, netVars, pollVars, genVars, upVars, probe>>

\* ------------------------------------------------------------ HTTP exchange
NoStatus ==
  [job_id |-> 0, status |-> Absent, progress |-> 0, message |-> Absent,
   video_url |-> Absent, roast_text |-> Absent, score |-> NoScore, error |-> Absent]

\* what fetch hands back: reached = FALSE when fetch itself rejects; ok is
\* response.ok; json tells whether the body parses; detail and status are
\* the parsed body's fields
Response(reached, ok, json, detail, status) ==
  [reached |-> reached, ok |-> ok, json |-> json, detail |-> detail, status |-> status]

NetworkError == Response(FALSE, FALSE, FALSE, Absent, NoStatus)

\* GET /api/status/{id}: unknown id is answered "not found"
StatusEndpoint(id) ==
  IF id \in Issued
    THEN Response(TRUE, TRUE, TRUE, Absent, StatusPayload(id))
    ELSE Response(TRUE, FALSE, TRUE, "Job not found", NoStatus)

\* answers that do not come from the status endpoint: no connection, or an
\* error page that is not JSON
TransportFailures ==
  {NetworkError, Response(TRUE, FALSE, FALSE, Absent, NoStatus)}

\* the same, and an error body without detail, and a success with a broken body
AllTransportFailures ==
  TransportFailures \cup
    {Response(TRUE, FALSE, TRUE, Absent, NoStatus),
     Response(TRUE, TRUE, FALSE, Absent, NoStatus)}

\* JavaScript's a || b on an optional string
OrElse(a, b) == IF a # Absent /\ a # "" THEN a ELSE b

Thrown(msg) == [threw |-> TRUE, message |-> msg, status |-> NoStatus]
Returned(st) == [threw |-> FALSE, message |-> Absent, status |-> st]

\* getJobStatus: what the awaited call yields for a response
getJobStatus(resp) ==
  IF ~resp.reached THEN Thrown("Failed to fetch")
  ELSE IF ~resp.ok
    THEN LET detail == IF resp.json THEN resp.detail ELSE "Status check failed"
         IN Thrown(OrElse(detail, "Failed to get job status"))
  ELSE IF ~resp.json THEN Thrown("Unexpected token in JSON")
  ELSE Returned(resp.status)

\* a request remembers its caller's closure: the jobId and the effect run
Request(client, job, epoch) ==
  [client |-> client, job |-> job, epoch |-> epoch,
   phase |-> "sent", resp |-> NetworkError]

\* the requests of a client that have not returned to it yet, and their number
InFlight(client) == {r \in BagToSet(net) : r.client = client}
InFlightCount(client) ==
  BagCardinality([r \in InFlight(client) |-> CopiesIn(r, net)])

Put(r) == net (+) SetToBag({r})
Take(r) == net (-) SetToBag({r})

\* fetch(`/api/status/${jobId}`) is called
SendStatusRequest(client, job, epoch) ==
  /\ reqSeq < MaxReads
  /\ net' = Put(Request(client, job, epoch))
  /\ reqSeq' = reqSeq + 1

\* the backend answers a request from the store as it is at that moment
ServerAnswer ==
  /\ \E r \in BagToSet(net) :
       /\ r.phase = "sent"
       /\ net' = Take(r) (+)
                 SetToBag({[r EXCEPT !.phase = "answered", !.resp = StatusEndpoint(r.job)]})
  /\ UNCHANGED <<storeVars, simVars, idxVars, reqSeq, pollVars, genVars, upVars, probe>>

\* the request or its answer is lost or mangled on the way
TransportFail(kinds) ==
  /\ \E r \in BagToSet(net) :
       /\ r.phase = "sent"
       /\ \E f \in kinds :
            net' = Take(r) (+) SetToBag({[r EXCEPT !.phase = "answered", !.resp = f]})
  /\ UNCHANGED <<storeVars, simVars, idxVars, reqSeq, pollVars, genVars, upVars, probe>>

\* ------------------------------------------------------------ pollJobStatus
Ev(e, st, msg) == [ev |-> e, status |-> st, msg |-> msg]

NoPromise == [state |-> "none", value |-> NoStatus, reason |-> Absent]
PendingPromise == [state |-> "pending", value |-> NoStatus, reason |-> Absent]

\* what one run of checkStatus after its await decides
Decision(settle, value, reason, timers) ==
  [settle |-> settle, value |-> value, reason |-> reason, timers |-> timers]

\* mutant: the callback is skipped for a terminal status
CallsProgress_skipsTerminal(hasCb, st) == hasCb /\ ~Terminal(st.status)

\* if (onProgress) onProgress(status)
CallsProgress(hasCb, st) == hasCb

\* mutant: a failed read is swallowed and polling goes on
onCaught_retries(msg) == Decision("none", NoStatus, Absent, 1)

\* catch (error) { reject(error) }
onCaught(msg) == Decision("reject", NoStatus, msg, 0)

\* mutant: the return after resolve is missing
onCompleted_noReturn(st) == Decision("resolve", st, Absent, 1)

\* status.status === "completed": resolve(status); return
onCompleted(st) == Decision("resolve", st, Absent, 0)

\* mutant: the fallback text is missing
onFailed_rawError(st) == Decision("reject", NoStatus, st.error, 0)

\* status.status === "failed": reject(new Error(status.error || "Job failed")); return
onFailed(st) == Decision("reject", NoStatus, OrElse(st.error, "Job failed"), 0)

\* neither: setTimeout(checkStatus, intervalMs)
\* mutant: a non-terminal status schedules no next check
onOther_givesUp(st) == Decision("none", NoStatus, Absent, 0)

onOther(st) == Decision("none", NoStatus, Absent, 1)

\* checkStatus from the return of getJobStatus on: the log of what it did
\* and its decision.  cbThrows: the callback throws on this invocation.
\* mutant: the terminal tests settle the promise before what the callback
\* threw is caught
checkStatus_settlesBeforeCatch(out, hasCb, cbThrows) ==
  IF out.threw
    THEN [log |-> <<Ev("readfail", NoStatus, out.message)>>,
          decision |-> onCaught(out.message)]
    ELSE LET st == out.status
             called == CallsProgress(hasCb, st)
             pre == <<Ev("read", st, Absent)>> \o
                    (IF called THEN <<Ev("progress", st, Absent)>> ELSE <<>>)
             thrown == IF called /\ cbThrows
                         THEN <<Ev("threw", st, "callback error")>> ELSE <<>>
         IN IF st.status = "completed"
              THEN [log |-> pre \o thrown, decision |-> onCompleted(st)]
            ELSE IF st.status = "failed"
              THEN [log |-> pre \o thrown, decision |-> onFailed(st)]
            ELSE IF called /\ cbThrows
              THEN [log |-> pre \o thrown, decision |-> onCaught("callback error")]
            ELSE [log |-> pre, decision |-> onOther(st)]

checkStatus(out, hasCb, cbThrows) ==
  IF out.threw
    THEN [log |-> <<Ev("readfail", NoStatus, out.message)>>,
          decision |-> onCaught(out.message)]
    ELSE LET st == out.status
             called == CallsProgress(hasCb, st)
             pre == <<Ev("read", st, Absent)>> \o
                    (IF called THEN <<Ev("progress", st, Absent)>> ELSE <<>>)
         IN IF called /\ cbThrows
              THEN [log |-> pre \o <<Ev("threw", st, "callback error")>>,
                    decision |-> onCaught("callback error")]
            ELSE IF st.status = "completed"
              THEN [log |-> pre, decision |-> onCompleted(st)]
            ELSE IF st.status = "failed"
              THEN [log |-> pre, decision |-> onFailed(st)]
            ELSE [log |-> pre, decision |-> onOther(st)]

\* resolve / reject settle a promise once; later calls are ignored
Settle(p, d) ==
  IF p.state # "pending" \/ d.settle = "none" THEN p
  ELSE IF d.settle = "resolve"
    THEN [state |-> "resolved", value |-> d.value, reason |-> Absent]
    ELSE [state |-> "rejected", value |-> NoStatus, reason |-> d.reason]

SettleLog(p, d) ==
  IF p.state # "pending" \/ d.settle = "none" THEN <<>>
  ELSE <<Ev(d.settle, d.value, d.reason)>>

TimerLog(d) == IF d.timers > 0 THEN <<Ev("timer", NoStatus, Absent)>> ELSE <<>>

\* mutant: the timer repeats (setInterval in place of setTimeout)
TimersAfterFire_interval(n) == n

\* a timer set by setTimeout fires once
TimersAfterFire(n) == n - 1

\* pollJobStatus(jobId, onProgress): the promise is created and checkStatus()
\* runs up to its await
PollStart(job, hasCb) ==
  /\ pollJobId = 0
  /\ pollJobId' = job
  /\ pollOnProgress' = hasCb
  /\ promise' = PendingPromise
  /\ SendStatusRequest("poll", job, 0)
  /\ pollLog' = <<Ev("issue", NoStatus, Absent)>>
  /\ UNCHANGED <<storeVars, simVars, idxVars, pollTimers, pollAbandoned, genVars, upVars, probe>>

\* a scheduled timer fires: checkStatus() runs up to its await
PollTimerFire ==
  /\ pollTimers > 0
  /\ pollTimers' = TimersAfterFire(pollTimers)
  /\ SendStatusRequest("poll", pollJobId, 0)
  /\ pollLog' = Append(pollLog, Ev("issue", NoStatus, Absent))
  /\ UNCHANGED <<storeVars, simVars, idxVars, pollJobId, pollOnProgress, promise, pollAbandoned, genVars, upVars, probe>>

\* the awaited getJobStatus returns or throws: the rest of checkStatus runs
PollDeliver ==
  \E r \in InFlight("poll") :
    /\ r.phase = "answered"
    /\ LET out == getJobStatus(r.resp)
       IN \E cbThrows \in (IF pollOnProgress /\ ~out.threw THEN BOOLEAN ELSE {FALSE}) :
            LET res == checkStatus(out, pollOnProgress, cbThrows)
            IN /\ net' = Take(r)
               /\ promise' = Settle(promise, res.decision)
               /\ pollTimers' = pollTimers + res.decision.timers
               /\ pollLog' = pollLog \o res.log \o SettleLog(promise, res.decision)
                                     \o TimerLog(res.decision)
    /\ UNCHANGED <<storeVars, simVars, idxVars, reqSeq, pollJobId, pollOnProgress, pollAbandoned, genVars, upVars, probe>>

\* the caller of pollJobStatus goes away (its component is torn down) while
\* the promise is pending.  pollJobStatus returns the promise alone: there is
\* no handle, signal or callback through which the caller reaches the loop,
\* so its timers and reads are left as they are.
PollAbandon ==
  /\ promise.state = "pending"
  /\ ~pollAbandoned
  /\ pollAbandoned' = TRUE
  /\ UNCHANGED <<storeVars, simVars, idxVars, netVars, pollJobId, pollOnProgress,
                 pollTimers, promise, pollLog, genVars, upVars, probe>>

\* ------------------------------------------------------------ Generate page
NoUrl == [path |-> Absent, job |-> 0]

\* getVideoUrl(jobId): `${API_BASE_URL}/api/video/${jobId}`
getVideoUrl(job) == [path |-> "/api/video/", job |-> job]

\* what one run of pollStatus after its await does: the stage, video URL and
\* error it sets (Absent / NoUrl: not set), the kind of toast it shows
\* ("success", "error" or Absent) and whether it clears its interval
NoToasts == [success |-> 0, error |-> 0]
Toast(t, kind) ==
  IF kind = "success" THEN [t EXCEPT !.success = @ + 1]
  ELSE IF kind = "error" THEN [t EXCEPT !.error = @ + 1]
  ELSE t

Handling(stage, url, err, toast, stop) ==
  [stage |-> stage, url |-> url, err |-> err, toast |-> toast, stop |-> stop]

\* mutant: the catch block does not clear the interval
pollStatus_pollsOnAfterError(out, job) ==
  IF out.threw
    THEN Handling(Absent, NoUrl, out.message, "error", FALSE)
  ELSE LET st == out.status
       IN IF st.status = "analyzing" THEN Handling("analyzing", NoUrl, Absent, Absent, FALSE)
          ELSE IF st.status = "roasting" THEN Handling("roasting", NoUrl, Absent, Absent, FALSE)
          ELSE IF st.status = "generating" THEN Handling("generating", NoUrl, Absent, Absent, FALSE)
          ELSE IF st.status = "completed"
            THEN Handling("complete", getVideoUrl(job), Absent, "success", TRUE)
          ELSE IF st.status = "failed"
            THEN Handling(Absent, NoUrl, OrElse(st.error, "Processing failed"), "error", TRUE)
          ELSE Handling(Absent, NoUrl, Absent, Absent, FALSE)

pollStatus(out, job) ==
  IF out.threw
    THEN Handling(Absent, NoUrl, out.message, "error", TRUE)
  ELSE LET st == out.status
       IN IF st.status = "analyzing" THEN Handling("analyzing", NoUrl, Absent, Absent, FALSE)
          ELSE IF st.status = "roasting" THEN Handling("roasting", NoUrl, Absent, Absent, FALSE)
          ELSE IF st.status = "generating" THEN Handling("generating", NoUrl, Absent, Absent, FALSE)
          ELSE IF st.status = "completed"
            THEN Handling("complete", getVideoUrl(job), Absent, "success", TRUE)
          ELSE IF st.status = "failed"
            THEN Handling(Absent, NoUrl, OrElse(st.error, "Processing failed"), "error", TRUE)
          ELSE Handling(Absent, NoUrl, Absent, Absent, FALSE)

\* the effect body for a jobId: initial poll, then setInterval(pollStatus, 2000)
\* mutant: the effect reports the missing jobId but does not return
RunEffect_noEarlyReturn(job) ==
  /\ genEpoch' = genEpoch + 1
  /\ toasts' = (IF job = 0 THEN Toast(toasts, "error") ELSE toasts)
  /\ navigated' = (job = 0 \/ navigated)
  /\ SendStatusRequest("gen", job, genEpoch + 1)
  /\ pollInterval' = genEpoch + 1

RunEffect(job) ==
  /\ genEpoch' = genEpoch + 1
  /\ IF job = 0
       THEN /\ toasts' = Toast(toasts, "error")
            /\ navigated' = TRUE
            /\ pollInterval' = 0
            /\ UNCHANGED netVars
       ELSE /\ SendStatusRequest("gen", job, genEpoch + 1)
            /\ pollInterval' = genEpoch + 1
            /\ UNCHANGED <<toasts, navigated>>

\* the page is opened at /generate?jobId=job (job = 0: no jobId parameter)
GenOpen(job) ==
  /\ genPhase = "closed"
  /\ genPhase' = "mounted"
  /\ genJobId' = job
  /\ RunEffect(job)
  /\ UNCHANGED <<storeVars, simVars, idxVars, pollVars, upVars, processingStage, videoUrl, error, probe>>

\* the interval fires: pollStatus() runs up to its await
GenTick ==
  /\ pollInterval # 0
  /\ SendStatusRequest("gen", genJobId, pollInterval)
  /\ UNCHANGED <<storeVars, simVars, idxVars, pollVars, genVars, upVars, probe>>

\* the awaited getJobStatus returns or throws: the rest of pollStatus runs.
\* State setters of an unmounted page have no effect; toasts still show.
GenDeliver ==
  \E r \in InFlight("gen") :
    /\ r.phase = "answered"
    /\ LET h == pollStatus(getJobStatus(r.resp), r.job)
           live == genPhase = "mounted"
       IN /\ net' = Take(r)
          /\ processingStage' = (IF live /\ h.stage # Absent THEN h.stage ELSE processingStage)
          /\ videoUrl' = (IF live /\ h.url # NoUrl THEN h.url ELSE videoUrl)
          /\ error' = (IF live /\ h.err # Absent THEN h.err ELSE error)
          /\ toasts' = Toast(toasts, h.toast)
          /\ pollInterval' = (IF h.stop /\ pollInterval = r.epoch THEN 0 ELSE pollInterval)
    /\ UNCHANGED <<storeVars, simVars, idxVars, pollVars, upVars, reqSeq, genPhase, genJobId,
                   genEpoch, navigated, probe>>

\* the jobId of the search params changes: cleanup of the old effect run,
\* then the effect runs again
GenChangeJob(job) ==
  /\ genPhase = "mounted"
  /\ job # genJobId
  /\ genEpoch <= MaxReruns
  /\ genJobId' = job
  /\ RunEffect(job)
  /\ UNCHANGED <<storeVars, simVars, idxVars, pollVars, upVars, genPhase, processingStage, videoUrl, error, probe>>

\* mutant: the cleanup returns without clearing the interval
GenUnmount_keepsInterval ==
  /\ genPhase = "mounted"
  /\ genPhase' = "unmounted"
  /\ UNCHANGED <<storeVars, simVars, idxVars, netVars, pollVars, upVars, genJobId, genEpoch,
                 pollInterval, processingStage, videoUrl, error, toasts, navigated, probe>>

\* mutant: the cleanup also tells the backend to give the job up
GenUnmount_cancelsJob ==
  /\ genPhase = "mounted"
  /\ genPhase' = "unmounted"
  /\ pollInterval' = 0
  /\ jobs' = [id \in DOMAIN jobs |->
               IF id = genJobId /\ ~Terminal(jobs[id].status)
                 THEN Failed(jobs[id], "Cancelled") ELSE jobs[id]]
  /\ UNCHANGED <<seen, simVars, idxVars, netVars, pollVars, upVars, genJobId, genEpoch,
                 processingStage, videoUrl, error, toasts, navigated, probe>>

\* the page is left: the cleanup clears the interval
GenUnmount ==
  /\ genPhase = "mounted"
  /\ genPhase' = "unmounted"
  /\ pollInterval' = 0
  /\ UNCHANGED <<storeVars, simVars, idxVars, netVars, pollVars, upVars, genJobId, genEpoch,
                 processingStage, videoUrl, error, toasts, navigated, probe>>

\* ------------------------------------------------------------ submission
\* the background choices the upload section offers
Backgrounds == {"subway_surfer", "minecraft", "fortnite", "templerun", "satisfying"}

\* a File as the handlers see it: its MIME type, the end of its name, what
\* its bytes really are, and its size in MB
NoFile == [type |-> Absent, ext |-> Absent, format |-> Absent, mb |-> 0]
File(type, ext, format, mb) == [type |-> type, ext |-> ext, format |-> format, mb |-> mb]

\* a small PDF, a PDF over the size ceiling, an image renamed to .pdf, an image
Files ==
  {File("application/pdf", ".pdf", "pdf", 1),
   File("application/pdf", ".pdf", "pdf", MaxUploadMB + 1),
   File("image/png", ".pdf", "png", 1),
   File("image/png", ".png", "png", 1)}

\* file.type === "application/pdf" || file.name.endsWith(".pdf")
AcceptsFile(f) == f.type = "application/pdf" \/ f.ext = ".pdf"

\* what the submit endpoint accepts: a supported document within the size
\* ceiling, with a background of the enumerated set
Supported(f) == f.format = "pdf"
WithinCeiling(f) == f.mb <= MaxUploadMB
ValidSubmission(f, bg) == Supported(f) /\ WithinCeiling(f) /\ bg \in Backgrounds

\* what fetch hands back for POST /api/upload (job_id of the parsed body)
UpResponse(reached, ok, json, detail, id) ==
  [reached |-> reached, ok |-> ok, json |-> json, detail |-> detail, job_id |-> id]

UpNetworkError == UpResponse(FALSE, FALSE, FALSE, Absent, 0)

\* answers that do not come from the submit endpoint: no connection, an
\* error page that is not JSON, an error body without detail
UpTransportFailures ==
  {UpNetworkError, UpResponse(TRUE, FALSE, FALSE, Absent, 0),
   UpResponse(TRUE, FALSE, TRUE, Absent, 0)}

\* the submit endpoint's answer: the new job's id, or a validation error
Accepted(id) == UpResponse(TRUE, TRUE, TRUE, Absent, id)
Rejected == UpResponse(TRUE, FALSE, TRUE, "Validation error", 0)

UpThrown(msg) == [threw |-> TRUE, message |-> msg, job_id |-> 0]
UpReturned(id) == [threw |-> FALSE, message |-> Absent, job_id |-> id]

\* mutant: the parsed body is dropped and only its presence is returned
uploadResume_dropsBody(resp) ==
  IF ~resp.reached THEN UpThrown("Failed to fetch")
  ELSE IF ~resp.ok
    THEN LET detail == IF resp.json THEN resp.detail ELSE "Upload failed"
         IN UpThrown(OrElse(detail, "Failed to upload resume"))
  ELSE IF ~resp.json THEN UpThrown("Unexpected token in JSON")
  ELSE UpReturned(0)

\* uploadResume: what the awaited call yields for a response
uploadResume(resp) ==
  IF ~resp.reached THEN UpThrown("Failed to fetch")
  ELSE IF ~resp.ok
    THEN LET detail == IF resp.json THEN resp.detail ELSE "Upload failed"
         IN UpThrown(OrElse(detail, "Failed to upload resume"))
  ELSE IF ~resp.json THEN UpThrown("Unexpected token in JSON")
  ELSE UpReturned(resp.job_id)

UpRequest(f, bg) ==
  [file |-> f, background |-> bg, phase |-> "sent", resp |-> UpNetworkError]

UpInFlight == BagCardinality(upNet)

\* handleDrop / handleFileInput for the first file of the event: a file that
\* passes the test is handed to onFileUpload (setUploadedFile)
ChooseFile(f) ==
  /\ upJobId = 0
  /\ uploadedFile = NoFile
  /\ IF AcceptsFile(f)
       THEN uploadedFile' = f /\ upToast' = "Resume uploaded successfully!"
       ELSE uploadedFile' = uploadedFile /\ upToast' = "Please upload a PDF file"
  /\ UNCHANGED <<storeVars, simVars, idxVars, netVars, pollVars, genVars,
                 backgroundVideo, isUploading, upNet, upJobId, probe>>

handleDrop(f) == ChooseFile(f)
handleFileInput(f) == ChooseFile(f)

\* the X button of the file card
handleRemoveFile ==
  /\ upJobId = 0
  /\ uploadedFile # NoFile
  /\ uploadedFile' = NoFile
  /\ UNCHANGED <<storeVars, simVars, idxVars, netVars, pollVars, genVars,
                 backgroundVideo, isUploading, upNet, upJobId, upToast, probe>>

\* mutant: the button hands over its caption, bg.replace("_", " ")
handleBackgroundChange_caption(bg) ==
  /\ upJobId = 0
  /\ uploadedFile # NoFile
  /\ backgroundVideo' = (IF bg = "subway_surfer" THEN "subway surfer" ELSE bg)
  /\ UNCHANGED <<storeVars, simVars, idxVars, netVars, pollVars, genVars,
                 uploadedFile, isUploading, upNet, upJobId, upToast, probe>>

\* a button of the background selector (shown on the file card)
handleBackgroundChange(bg) ==
  /\ upJobId = 0
  /\ uploadedFile # NoFile
  /\ backgroundVideo' = bg
  /\ UNCHANGED <<storeVars, simVars, idxVars, netVars, pollVars, genVars,
                 uploadedFile, isUploading, upNet, upJobId, upToast, probe>>

\* mutant: the uploading flag is not set before the await
handleGenerateRoast_noFlag ==
  /\ upJobId = 0
  /\ ~isUploading
  /\ IF uploadedFile = NoFile
       THEN /\ upToast' = "No file uploaded"
            /\ UNCHANGED <<isUploading, upNet>>
       ELSE /\ isUploading' = isUploading
            /\ upNet' = upNet (+) SetToBag({UpRequest(uploadedFile, backgroundVideo)})
            /\ upToast' = upToast
  /\ UNCHANGED <<storeVars, simVars, idxVars, netVars, pollVars, genVars,
                 uploadedFile, backgroundVideo, upJobId, probe>>

\* the Generate button (disabled while uploading): handleGenerateRoast runs
\* up to its first return or await. Without a file it only shows a toast;
\* the button is rendered on the file card, so that branch is the handler
\* called with nothing selected.
handleGenerateRoast ==
  /\ upJobId = 0
  /\ ~isUploading
  /\ IF uploadedFile = NoFile
       THEN /\ upToast' = "No file uploaded"
            /\ UNCHANGED <<isUploading, upNet>>
       ELSE /\ isUploading' = TRUE
            /\ upNet' = upNet (+) SetToBag({UpRequest(uploadedFile, backgroundVideo)})
            /\ upToast' = upToast
  /\ UNCHANGED <<storeVars, simVars, idxVars, netVars, pollVars, genVars,
                 uploadedFile, backgroundVideo, upJobId, probe>>

\* POST /api/upload: a valid submission creates a job in its initial state
\* and is answered with the job's id at once; any other is answered with a
\* validation error and creates nothing
SubmitEndpointUpTo(limit) ==
  \E r \in BagToSet(upNet) :
    /\ r.phase = "sent"
    /\ LET id == Cardinality(Issued) + 1
           valid == ValidSubmission(r.file, r.background)
           resp == IF valid THEN Accepted(id) ELSE Rejected
       IN /\ valid => Cardinality(Issued) < limit
          /\ jobs' = (IF valid THEN jobs @@ (id :> NewJob(id)) ELSE jobs)
          /\ seen' = (IF valid THEN seen @@ (id :> <<>>) ELSE seen)
          /\ upNet' = (upNet (-) SetToBag({r})) (+)
                      SetToBag({[r EXCEPT !.phase = "answered", !.resp = resp]})
    /\ UNCHANGED <<simVars, idxVars, netVars, pollVars, genVars, uploadedFile,
                   backgroundVideo, isUploading, upJobId, upToast, probe>>

SubmitEndpoint == SubmitEndpointUpTo(MaxPolled)
SubmitEndpointShared == SubmitEndpointUpTo(MaxJobs)

\* the upload is lost or mangled on the way, or the endpoint's answer is
UploadTransportFail ==
  \E r \in BagToSet(upNet) :
    /\ r.phase = "sent" \/ r.resp \notin UpTransportFailures
    /\ \E f \in UpTransportFailures :
         upNet' = (upNet (-) SetToBag({r})) (+)
                  SetToBag({[r EXCEPT !.phase = "answered", !.resp = f]})
    /\ UNCHANGED <<storeVars, simVars, idxVars, netVars, pollVars, genVars, uploadedFile,
                   backgroundVideo, isUploading, upJobId, upToast, probe>>

\* what handleGenerateRoast does after its await: the toast it shows, the
\* job id it navigates to (0: it stays) and the uploading flag it leaves
UpHandling(toast, to, uploading) ==
  [toast |-> toast, to |-> to, uploading |-> uploading]

\* mutant: the catch block leaves the uploading flag as it is
afterUpload_keepsUploading(out) ==
  IF out.threw
    THEN UpHandling(out.message, 0, TRUE)
    ELSE UpHandling("Upload successful! Generating roast...", out.job_id, TRUE)

afterUpload(out) ==
  IF out.threw
    THEN UpHandling(out.message, 0, FALSE)
    ELSE UpHandling("Upload successful! Generating roast...", out.job_id, TRUE)

\* the awaited uploadResume returns or throws: the rest of handleGenerateRoast.
\* navigate() leaves the Index page, whose state (the selected file and the
\* background) is discarded with it.
UploadDeliver ==
  \E r \in BagToSet(upNet) :
    /\ r.phase = "answered"
    /\ LET h == afterUpload(uploadResume(r.resp))
       IN /\ upNet' = upNet (-) SetToBag({r})
          /\ upToast' = h.toast
          /\ upJobId' = h.to
          /\ isUploading' = h.uploading
          /\ uploadedFile' = (IF h.to # 0 THEN NoFile ELSE uploadedFile)
          /\ backgroundVideo' = (IF h.to # 0 THEN "subway_surfer" ELSE backgroundVideo)
    /\ UNCHANGED <<storeVars, simVars, idxVars, netVars, pollVars, genVars, probe>>

\* the route /generate?jobId=<id> the upload section navigated to is shown
GenOpenNavigated ==
  /\ upJobId # 0
  /\ GenOpen(upJobId)

\* ------------------------------------------------- simulated Index page
\* startProcessing up to its first setTimeout: the stage it sets and the
\* timer it leaves pending
startProcessing == [stage |-> "analyzing", timers |-> SetToBag({1})]

\* the k-th nested setTimeout callback of startProcessing: the stage and video
\* URL it sets and the timer it schedules (0: none)
IdxAfterTimer(k) ==
  CASE k = 1 -> [stage |-> "roasting", url |-> Absent, next |-> 2]
    [] k = 2 -> [stage |-> "generating", url |-> Absent, next |-> 3]
    [] k = 3 -> [stage |-> "complete", url |-> "https://example.com/video.mp4", next |-> 0]

\* useState(() => { if (uploadedFile && !processingStage) startProcessing(); }):
\* React calls the initializer of useState during the first render only
AutoStarts(firstRender, file, stage) ==
  firstRender /\ file # NoFile /\ stage = Absent

\* one render of Index with the given state: the stage and the timers after it
IdxRender(firstRender, file, stage, timers) ==
  IF AutoStarts(firstRender, file, stage)
    THEN [stage |-> startProcessing.stage, timers |-> timers (+) startProcessing.timers]
    ELSE [stage |-> stage, timers |-> timers]

\* the first render, with uploadedFile and processingStage both null
IdxMount == IdxRender(TRUE, NoFile, Absent, EmptyBag)

\* the Get Started button of the Hero
idxHandleGetStarted ==
  /\ idxShowUpload' = TRUE
  /\ UNCHANGED <<storeVars, simVars, netVars, pollVars, genVars, upVars, probe,
                 idxUploadedFile, idxProcessingStage, idxVideoUrl, idxTimers>>

\* handleFileUpload, called by the upload section (shown once showUpload is
\* set) with a file that passed its test, and the render that follows
idxHandleFileUpload(f) ==
  /\ idxShowUpload
  /\ idxUploadedFile = NoFile
  /\ AcceptsFile(f)
  /\ LET r == IdxRender(FALSE, f, idxProcessingStage, idxTimers)
     IN /\ idxUploadedFile' = f
        /\ idxProcessingStage' = r.stage
        /\ idxTimers' = r.timers
  /\ UNCHANGED <<storeVars, simVars, netVars, pollVars, genVars, upVars, probe,
                 idxVideoUrl, idxShowUpload>>

\* handleRemoveFile (the X button of the file card) and the render that follows
idxHandleRemoveFile ==
  /\ idxShowUpload
  /\ idxUploadedFile # NoFile
  /\ LET r == IdxRender(FALSE, NoFile, Absent, idxTimers)
     IN /\ idxUploadedFile' = NoFile
        /\ idxProcessingStage' = r.stage
        /\ idxTimers' = r.timers
  /\ idxVideoUrl' = Absent
  /\ UNCHANGED <<storeVars, simVars, netVars, pollVars, genVars, upVars, probe,
                 idxShowUpload>>

\* handleReset, the button of ResultSection, which renders only with a video URL
idxHandleReset ==
  /\ idxVideoUrl # Absent
  /\ LET r == IdxRender(FALSE, NoFile, Absent, idxTimers)
     IN /\ idxUploadedFile' = NoFile
        /\ idxProcessingStage' = r.stage
        /\ idxTimers' = r.timers
  /\ idxVideoUrl' = Absent
  /\ idxShowUpload' = FALSE
  /\ UNCHANGED <<storeVars, simVars, netVars, pollVars, genVars, upVars, probe>>

\* a pending timer of startProcessing fires
IdxTimerFire ==
  \E k \in BagToSet(idxTimers) :
    /\ LET a == IdxAfterTimer(k)
           rest == idxTimers (-) SetToBag({k})
       IN /\ idxProcessingStage' = a.stage
          /\ idxVideoUrl' = (IF a.url = Absent THEN idxVideoUrl ELSE a.url)
          /\ idxTimers' = (IF a.next = 0 THEN rest ELSE rest (+) SetToBag({a.next}))
    /\ UNCHANGED <<storeVars, simVars, netVars, pollVars, genVars, upVars, probe,
                   idxUploadedFile, idxShowUpload>>

\* ------------------------------------------------------------ result read
NoResult == [roast_text |-> Absent, score |-> NoScore, video_url |-> Absent]

\* the result of a completed job
ResultPayload(id) ==
  [roast_text |-> jobs[id].roast_text, score |-> jobs[id].score,
   video_url |-> jobs[id].video_url]

\* what fetch hands back for GET /api/result/{id}
ResResponse(reached, ok, json, detail, result) ==
  [reached |-> reached, ok |-> ok, json |-> json, detail |-> detail, result |-> result]

\* GET /api/result/{id}: unknown id is "not found", a job that is not
\* terminal is "not ready", a failed job is "failed", each a signal of its own
ResultEndpoint(id) ==
  IF id \notin Issued THEN ResResponse(TRUE, FALSE, TRUE, "Job not found", NoResult)
  ELSE IF jobs[id].status = "completed"
    THEN ResResponse(TRUE, TRUE, TRUE, Absent, ResultPayload(id))
  ELSE IF jobs[id].status = "failed"
    THEN ResResponse(TRUE, FALSE, TRUE, "Job failed", NoResult)
  ELSE ResResponse(TRUE, FALSE, TRUE, "Job not ready", NoResult)

\* answers that do not come from the result endpoint
ResTransportFailures ==
  {ResResponse(FALSE, FALSE, FALSE, Absent, NoResult),
   ResResponse(TRUE, FALSE, FALSE, Absent, NoResult),
   ResResponse(TRUE, FALSE, TRUE, Absent, NoResult)}

ResThrown(msg) == [threw |-> TRUE, message |-> msg, result |-> NoResult]
ResReturned(res) == [threw |-> FALSE, message |-> Absent, result |-> res]

\* mutant: the detail of the error body is not read
getResult_fixedMessage(resp) ==
  IF ~resp.reached THEN ResThrown("Failed to fetch")
  ELSE IF ~resp.ok THEN ResThrown("Failed to get result")
  ELSE IF ~resp.json THEN ResThrown("Unexpected token in JSON")
  ELSE ResReturned(resp.result)

\* getResult: what the awaited call yields for a response
getResult(resp) ==
  IF ~resp.reached THEN ResThrown("Failed to fetch")
  ELSE IF ~resp.ok
    THEN LET detail == IF resp.json THEN resp.detail ELSE "Failed to get result"
         IN ResThrown(OrElse(detail, "Failed to get result"))
  ELSE IF ~resp.json THEN ResThrown("Unexpected token in JSON")
  ELSE ResReturned(resp.result)

\* what a job id stands for in the store at this moment
StoreKind(id) ==
  IF id \notin Issued THEN "not-found"
  ELSE IF jobs[id].status = "completed" THEN "completed"
  ELSE IF jobs[id].status = "failed" THEN "failed"
  ELSE "pending"

\* the last call of a direct caller: which function, for which id, what the
\* id stood for when the backend answered ("transport": it did not answer),
\* and what the call yielded
NoProbe == [call |-> Absent, id |-> 0, truth |-> Absent, out |-> Absent]
Probe(call, id, truth, out) == [call |-> call, id |-> id, truth |-> truth, out |-> out]

\* mutant: the request path does not carry the id
ProbeStatus_fixedPath(id) ==
  /\ probe' = Probe("getJobStatus", id, StoreKind(id), getJobStatus(StatusEndpoint(1)))
  /\ UNCHANGED <<storeVars, simVars, idxVars, netVars, pollVars, genVars, upVars>>

\* await getJobStatus(id), answered by the backend
ProbeStatus(id) ==
  /\ probe' = Probe("getJobStatus", id, StoreKind(id), getJobStatus(StatusEndpoint(id)))
  /\ UNCHANGED <<storeVars, simVars, idxVars, netVars, pollVars, genVars, upVars>>

\* await getResult(id), answered by the backend
ProbeResult(id) ==
  /\ probe' = Probe("getResult", id, StoreKind(id), getResult(ResultEndpoint(id)))
  /\ UNCHANGED <<storeVars, simVars, idxVars, netVars, pollVars, genVars, upVars>>

\* either call when the request or its answer is lost or mangled
ProbeStatusFail(id) ==
  /\ \E f \in AllTransportFailures :
       probe' = Probe("getJobStatus", id, "transport", getJobStatus(f))
  /\ UNCHANGED <<storeVars, simVars, idxVars, netVars, pollVars, genVars, upVars>>

ProbeResultFail(id) ==
  /\ \E f \in ResTransportFailures :
       probe' = Probe("getResult", id, "transport", getResult(f))
  /\ UNCHANGED <<storeVars, simVars, idxVars, netVars, pollVars, genVars, upVars>>

\* ------------------------------------------------------------ specification
Init ==
  /\ jobs = <<>>
  /\ seen = <<>>
  /\ simStage = "analyzing"
  /\ simVideoUrl = Absent
  /\ simPc = 1
  /\ net = EmptyBag
  /\ reqSeq = 0
  /\ pollJobId = 0
  /\ pollOnProgress = FALSE
  /\ pollTimers = 0
  /\ promise = NoPromise
  /\ pollLog = <<>>
  /\ pollAbandoned = FALSE
  /\ genPhase = "closed"
  /\ genJobId = 0
  /\ genEpoch = 0
  /\ pollInterval = 0
  /\ processingStage = "analyzing"
  /\ videoUrl = NoUrl
  /\ error = Absent
  /\ toasts = NoToasts
  /\ navigated = FALSE
  /\ uploadedFile = NoFile
  /\ backgroundVideo = "subway_surfer"
  /\ isUploading = FALSE
  /\ upNet = EmptyBag
  /\ upJobId = 0
  /\ upToast = Absent
  /\ probe = NoProbe
  /\ idxUploadedFile = NoFile
  /\ idxProcessingStage = IdxMount.stage
  /\ idxVideoUrl = Absent
  /\ idxShowUpload = FALSE
  /\ idxTimers = IdxMount.timers

\* the job store and its pipeline, with the simulated pages
Next ==
  \/ CreateJob
  \/ \E id \in 1..MaxJobs : AdvanceStage(id)
  \/ \E id \in 1..MaxJobs : FailStage(id)
  \/ \E id \in 1..MaxJobs : StatusRead(id)
  \/ ProcessVideoStep

Spec == Init /\ [][Next]_vars

\* the same, where every stage that runs returns or raises in the end and
\* every timer of processVideo fires; nothing is asked of the clients
\* the job store and its pipeline, with the simulated Index page.  No step of
\* the page sets a video URL or a timer (startProcessing has no caller that
\* runs), so idxHandleReset and IdxTimerFire are never enabled.
NextIndex ==
  \/ CreateJob
  \/ \E id \in 1..MaxJobs : AdvanceStage(id)
  \/ \E id \in 1..MaxJobs : FailStage(id)
  \/ idxHandleGetStarted
  \/ \E f \in Files : idxHandleFileUpload(f)
  \/ idxHandleRemoveFile

SpecIndex == Init /\ [][NextIndex]_vars

SpecLive ==
  /\ Init /\ [][Next]_vars
  /\ \A id \in 1..MaxJobs : WF_vars(AdvanceStage(id) \/ FailStage(id))
  /\ WF_vars(ProcessVideoStep)

\* the job store and one pollJobStatus run against it
NextPoll ==
  \/ CreateJobPolled
  \/ \E id \in 1..MaxPolled : AdvanceStage(id)
  \/ \E id \in 1..MaxPolled : FailStage(id)
  \/ ServerAnswer
  \/ TransportFail(AllTransportFailures)
  \/ \E job \in 1..(MaxPolled + 1), hasCb \in BOOLEAN : PollStart(job, hasCb)
  \/ PollTimerFire
  \/ PollDeliver
  \/ PollAbandon

SpecPoll == Init /\ [][NextPoll]_vars

\* one pollJobStatus run for a job the store issued, over a reliable
\* connection: every request is answered, every answer is handed to
\* checkStatus and every timer set by setTimeout fires; nothing is asked of
\* the pipeline
NextPollLive ==
  \/ CreateJobPolled
  \/ \E id \in 1..MaxPolled : AdvanceStage(id)
  \/ \E id \in 1..MaxPolled : FailStage(id)
  \/ ServerAnswer
  \/ \E job \in Issued, hasCb \in BOOLEAN : PollStart(job, hasCb)
  \/ PollTimerFire
  \/ PollDeliver

SpecPollLive ==
  /\ Init /\ [][NextPollLive]_vars
  /\ WF_vars(ServerAnswer)
  /\ WF_vars(PollDeliver)
  /\ WF_vars(PollTimerFire)

\* the job store and one Generate page polling it
NextGen ==
  \/ CreateJobPolled
  \/ \E id \in 1..MaxPolled : AdvanceStage(id)
  \/ \E id \in 1..MaxPolled : FailStage(id)
  \/ ServerAnswer
  \/ TransportFail(TransportFailures)
  \/ \E job \in 0..(MaxPolled + 1) : GenOpen(job)
  \/ GenTick
  \/ GenDeliver

SpecGen == Init /\ [][NextGen]_vars

\* a Generate page whose jobId changes and which is left, over a reliable
\* transport
NextGenNav ==
  \/ CreateJobPolled
  \/ \E id \in 1..MaxPolled : AdvanceStage(id)
  \/ \E id \in 1..MaxPolled : FailStage(id)
  \/ ServerAnswer
  \/ \E job \in 1..(MaxPolled + 1) : GenOpen(job)
  \/ (reqSeq < MaxNavReads /\ GenTick)
  \/ GenDeliver
  \/ \E job \in 1..(MaxPolled + 1) : (reqSeq < MaxNavReads /\ GenChangeJob(job))
  \/ GenUnmount

SpecGenNav == Init /\ [][NextGenNav]_vars

\* the upload section, the submit endpoint and the Generate page it leads to,
\* up to that page's first status read, while the stages of the job succeed
NextUp ==
  \/ \E id \in 1..MaxPolled : AdvanceStage(id)
  \/ \E f \in Files : handleDrop(f)
  \/ \E f \in Files : handleFileInput(f)
  \/ handleRemoveFile
  \/ \E bg \in Backgrounds : handleBackgroundChange(bg)
  \/ handleGenerateRoast
  \/ SubmitEndpoint
  \/ UploadTransportFail
  \/ UploadDeliver
  \/ GenOpenNavigated
  \/ ServerAnswer
  \/ GenDeliver

SpecUp == Init /\ [][NextUp]_vars

\* the job store and a caller of getJobStatus and getResult
NextRead ==
  \/ CreateJobPolled
  \/ \E id \in 1..MaxPolled : AdvanceStage(id)
  \/ \E id \in 1..MaxPolled : FailStage(id)
  \/ \E id \in 1..(MaxPolled + 1) : ProbeStatus(id)
  \/ \E id \in 1..(MaxPolled + 1) : ProbeResult(id)
  \/ \E id \in 1..(MaxPolled + 1) : ProbeStatusFail(id)
  \/ \E id \in 1..(MaxPolled + 1) : ProbeResultFail(id)

SpecRead == Init /\ [][NextRead]_vars

\* several jobs in the store and a caller of getJobStatus
NextPair ==
  \/ CreateJob
  \/ \E id \in 1..MaxJobs : AdvanceStage(id)
  \/ \E id \in 1..MaxJobs : FailStage(id)
  \/ \E id \in 1..MaxJobs : ProbeStatus(id)

SpecPair == Init /\ [][NextPair]_vars

\* a client from submission to the teardown of its Generate page, over a
\* reliable transport, while the store holds another client's job
NextClient ==
  \/ CreateJobPolled
  \/ \E id \in 1..MaxJobs : AdvanceStage(id)
  \/ \E id \in 1..MaxJobs : FailStage(id)
  \/ \E f \in Files : handleFileInput(f)
  \/ handleGenerateRoast
  \/ SubmitEndpointShared
  \/ UploadDeliver
  \/ GenOpenNavigated
  \/ ServerAnswer
  \/ (reqSeq < MaxNavReads /\ GenTick)
  \/ GenDeliver
  \/ GenUnmount

SpecClient == Init /\ [][NextClient]_vars

\* ------------------------------------------------------------------ claims
NonTerminal == {"pending", "analyzing", "roasting", "generating"}
SimOrder == <<"analyzing", "roasting", "generating", "complete">>
SimIndex(s) == CHOOSE i \in 1..Len(SimOrder) : SimOrder[i] = s

ResultPresent(j) == j.video_url # Absent /\ j.roast_text # Absent /\ j.score # NoScore
ResultAbsent(j) == j.video_url = Absent /\ j.roast_text = Absent /\ j.score = NoScore

\* one status change of a job is a step to the next stage or a failure of a
\* job that was not terminal
LegalChange(a, b) ==
  \/ a \in NonTerminal /\ b = "failed"
  \/ a \in NonTerminal /\ b = StatusOrder[StageIndex(a) + 1]

\* C1: a job starts pending and its status only moves one step along
\* pending -> analyzing -> roasting -> generating -> completed, or from a
\* non-terminal status to failed; the simulated pipeline of the Generate
\* page moves one stage at a time in the same order.
C1_StatusOrder ==
  [][ /\ \A id \in DOMAIN jobs :
           jobs'[id].status # jobs[id].status
             => LegalChange(jobs[id].status, jobs'[id].status)
      /\ \A id \in (DOMAIN jobs') \ (DOMAIN jobs) : jobs'[id].status = "pending"
      /\ simStage' # simStage
           => /\ simStage # "complete"
              /\ simStage' = SimOrder[SimIndex(simStage) + 1] ]_vars

C1_Witness ==
  /\ \E id \in DOMAIN jobs : jobs[id].status = "completed"
  /\ \E id \in DOMAIN jobs : jobs[id].status = "failed" /\ jobs[id].progress = 75
  /\ simStage = "complete"

\* C2: a step that records a failure description sets status failed with
\* that description in error, and a failed job never changes again (no
\* later stage, no retry).
C2_FailureIsTerminal ==
  [][ \A id \in DOMAIN jobs :
        /\ jobs'[id].error # jobs[id].error
             => jobs'[id].status = "failed" /\ jobs'[id].error \in FailureTexts
        /\ (jobs'[id].status = "failed" /\ jobs[id].status # "failed")
             => jobs'[id].error \in FailureTexts
        /\ jobs[id].status = "failed" => jobs'[id] = jobs[id] ]_vars

C2_Witness ==
  \E id \in DOMAIN jobs :
    /\ jobs[id].status = "failed" /\ jobs[id].progress = 50
    /\ jobs[id].error = "Could not parse resume"
    /\ seen[id] # <<>>

\* C3: non-terminal: result and error absent; completed: result present,
\* error absent; failed: error present, result absent.
C3_ResultXorError ==
  \A id \in DOMAIN jobs :
    LET j == jobs[id]
    IN /\ j.status \in NonTerminal => ResultAbsent(j) /\ ~HasError(j)
       /\ j.status = "completed" => ResultPresent(j) /\ ~HasError(j)
       /\ j.status = "failed" => HasError(j) /\ ResultAbsent(j)
       /\ ~(HasResult(j) /\ HasError(j))

C3_Witness ==
  /\ \E id \in DOMAIN jobs : jobs[id].status = "completed" /\ ResultPresent(jobs[id])
  /\ \E id \in DOMAIN jobs : jobs[id].status = "failed" /\ HasError(jobs[id])

\* C4: a terminal job's record never changes, and every status read of it
\* returns the payload the first read after the terminal state returned.
C4_TerminalImmutable ==
  [][ \A id \in DOMAIN jobs :
        /\ Terminal(jobs[id].status) => jobs'[id] = jobs[id]
        /\ seen'[id] # <<>> => StatusPayload(id)' = seen'[id][1] ]_vars

C4_Witness ==
  /\ \E id \in DOMAIN jobs : jobs[id].status = "completed" /\ seen[id] = <<jobs[id]>>
  /\ \E id \in DOMAIN jobs : jobs[id].status = "failed" /\ seen[id] = <<jobs[id]>>

\* ---------------------------------------------- claims on pollJobStatus
LogIdx == 1..Len(pollLog)
Settled == promise.state \in {"resolved", "rejected"}
ReadsReturned == {i \in LogIdx : pollLog[i].ev = "read"}
LastOf(S) == CHOOSE i \in S : \A k \in S : k <= i
Quiet == InFlightCount("poll") = 0 /\ pollTimers = 0

\* C5: the promise resolves only on a read that returned completed, with
\* that status object; a read of a terminal status settles the promise;
\* the promise settles once, and once settled no read is in flight, no
\* timer is scheduled and none is issued or scheduled afterwards.
C5_ResolveOnlyOnCompleted ==
  /\ promise.state = "resolved" =>
       /\ ReadsReturned # {}
       /\ LET i == LastOf(ReadsReturned)
          IN /\ pollLog[i].status.status = "completed"
             /\ promise.value = pollLog[i].status
             /\ \A k \in ReadsReturned \ {i} : ~Terminal(pollLog[k].status.status)
  /\ \A i \in ReadsReturned : Terminal(pollLog[i].status.status) => Settled
  /\ Settled => Quiet
  /\ \A i \in LogIdx :
       pollLog[i].ev \in {"resolve", "reject"} =>
         \A k \in LogIdx : k > i => pollLog[k].ev \notin {"issue", "timer", "resolve", "reject"}

C5_Witness ==
  /\ promise.state = "resolved"
  /\ Cardinality(ReadsReturned) >= 2
  /\ promise.value.status = "completed"

\* C6 as stated: a read that returned failed rejects the promise with the
\* status's error, or "Job failed" when that is absent or empty.
C6_Original ==
  \A i \in ReadsReturned :
    pollLog[i].status.status = "failed" =>
      /\ promise.state = "rejected"
      /\ promise.reason = OrElse(pollLog[i].status.error, "Job failed")
      /\ Quiet

CallbackThrew(i) == \E k \in LogIdx : k > i /\ pollLog[k].ev = "threw"

\* C6 (amended): when a read returned failed and the onProgress callback,
\* if one was supplied, returned normally, the promise is rejected with the
\* status's error ("Job failed" when absent or empty), it is not resolved,
\* and nothing is in flight or scheduled.
C6_FailedRejects ==
  /\ \A i \in ReadsReturned :
       (pollLog[i].status.status = "failed" /\ ~CallbackThrew(i)) =>
         /\ promise.state = "rejected"
         /\ promise.reason = (IF pollLog[i].status.error \in {Absent, ""}
                                THEN "Job failed" ELSE pollLog[i].status.error)
         /\ Quiet
  /\ \A i \in ReadsReturned :
       pollLog[i].status.status = "failed" => promise.state = "rejected" /\ Quiet
  /\ \A i \in ReadsReturned :
       pollLog[i].status.status = "failed" =>
         \A e \in {Absent, ""} :
           onFailed([pollLog[i].status EXCEPT !.error = e]).reason = "Job failed"

C6_Witness ==
  /\ pollOnProgress
  /\ promise.state = "rejected" /\ promise.reason = "Job failed"
  /\ \E i \in ReadsReturned :
       pollLog[i].status.status = "failed" /\ pollLog[i].status.error = ""
  /\ Cardinality(ReadsReturned) >= 2

\* C7: a status read that fails rejects the promise at once with the
\* failure getJobStatus threw; nothing happens after it: no retry, no read
\* in flight, no timer.  A job id the store never issued cannot resolve.
C7_ReadFailureRejects ==
  /\ \A i \in LogIdx :
       pollLog[i].ev = "readfail" =>
         /\ promise.state = "rejected"
         /\ promise.reason = pollLog[i].msg
         /\ Len(pollLog) = i + 1
         /\ pollLog[i + 1].ev = "reject"
         /\ Quiet
  /\ \A r \in InFlight("poll") :
       r.phase = "answered" /\ getJobStatus(r.resp).threw => promise.state = "pending"
  /\ (pollJobId = MaxPolled + 1 /\ Settled) =>
       promise.state = "rejected" /\ promise.reason \in
         {"Job not found", "Failed to fetch", "Status check failed",
          "Failed to get job status", "Unexpected token in JSON"}

C7_Witness ==
  /\ promise.state = "rejected"
  /\ \E i \in LogIdx : pollLog[i].ev = "timer"
  /\ \E i \in LogIdx : pollLog[i].ev = "readfail" /\ pollLog[i].msg = "Status check failed"

\* C8: reads in flight plus scheduled timers never exceed one; a timer is
\* scheduled only as the last act after a read that returned a
\* non-terminal status, and every read but the first is issued by a timer.
C8_AtMostOnePending ==
  /\ InFlightCount("poll") + pollTimers <= 1
  /\ pollTimers > 0 =>
       /\ pollLog[Len(pollLog)].ev = "timer"
       /\ ReadsReturned # {}
       /\ LET i == LastOf(ReadsReturned)
          IN /\ ~Terminal(pollLog[i].status.status)
             /\ \A k \in LogIdx : k > i => pollLog[k].ev \in {"progress", "timer"}
  /\ \A k \in LogIdx :
       (pollLog[k].ev = "issue" /\ k > 1) => pollLog[k - 1].ev = "timer"

C8_Witness ==
  /\ InFlightCount("poll") = 1
  /\ pollTimers = 0
  /\ reqSeq >= 2
  /\ \E i \in LogIdx : pollLog[i].ev = "timer"

\* C10: with a callback supplied, every read that returned a status is
\* followed at once by one callback invocation with that status, terminal
\* or not, changed or not, and the promise settles only after it; there is
\* no invocation without a read.
C10_ProgressEveryRead ==
  pollOnProgress =>
    /\ \A i \in ReadsReturned :
         /\ i + 1 <= Len(pollLog)
         /\ pollLog[i + 1].ev = "progress"
         /\ pollLog[i + 1].status = pollLog[i].status
    /\ \A i \in LogIdx :
         pollLog[i].ev = "progress" => i > 1 /\ pollLog[i - 1].ev = "read"
    /\ \A i \in LogIdx :
         pollLog[i].ev \in {"resolve", "reject"} =>
           \A k \in LogIdx : pollLog[k].ev = "progress" => k < i

C10_Witness ==
  /\ pollOnProgress
  /\ promise.state = "resolved"
  /\ \E i, k \in LogIdx :
       /\ i < k
       /\ pollLog[i].ev = "progress" /\ pollLog[k].ev = "progress"
       /\ pollLog[i].status = pollLog[k].status
  /\ \E i \in LogIdx : pollLog[i].ev = "progress" /\ pollLog[i].status.status = "completed"

\* ---------------------------------------------- claims on the Generate page
\* C9: the Generate page never has two status reads in flight.
C9_NoOverlap == InFlightCount("gen") <= 1

TerminalObserved == processingStage = "complete" \/ error # Absent

\* C11: the teardown of the Generate page only clears the interval (it
\* raises nothing: no error is set, no toast shown, no request touched),
\* and once the page is torn down no status read is issued any more,
\* whether a read was in flight at teardown or not; a read in flight can
\* only return.
C11_NoReadAfterTeardown ==
  [][ /\ (genPhase = "mounted" /\ genPhase' = "unmounted") =>
           /\ pollInterval' = 0
           /\ net' = net /\ reqSeq' = reqSeq
           /\ error' = error /\ toasts' = toasts
      /\ genPhase = "unmounted" =>
           /\ genPhase' = "unmounted"
           /\ pollInterval' = 0
           /\ reqSeq' = reqSeq
           /\ InFlightCount("gen")' <= InFlightCount("gen") ]_vars

C11_Witness ==
  /\ genPhase = "unmounted"
  /\ ~TerminalObserved
  /\ \E id \in DOMAIN jobs : id = genJobId /\ ~Terminal(jobs[id].status)
  /\ \E r \in InFlight("gen") : r.phase = "answered"
  /\ reqSeq < MaxNavReads

\* ---------------------------------------------- claims on cancelling a poll
\* C12: once the caller of pollJobStatus has cancelled the loop, before a
\* terminal status was observed, no timer remains scheduled and no further
\* status read is issued.
C12_Cancellable ==
  [][ pollAbandoned' => (pollTimers' = 0 /\ reqSeq' = reqSeq) ]_vars

\* ---------------------------------------------- claims on the shown stage
\* C13: for one job, the stage the Generate page shows never moves backward
\* in the order analyzing < roasting < generating < complete, whatever the
\* order in which the status responses arrive.
C13_StageNeverBackward ==
  [][ SimIndex(processingStage') >= SimIndex(processingStage) ]_vars

\* ---------------------------------------------- claims on submission
NewIds == (DOMAIN jobs') \ (DOMAIN jobs)
NewlyAnswered(r) == r.phase = "answered" /\ r \in BagToSet(upNet') /\ r \notin BagToSet(upNet)
Delivered(r) == r.phase = "answered" /\ r \in BagToSet(upNet) /\ upNet' = upNet (-) SetToBag({r})

StatusOutcome(out) ==
  IF out.threw
    THEN (IF out.message = "Job not found" THEN "not-found" ELSE "transport")
  ELSE IF out.status.status = "failed" THEN "failed"
  ELSE IF out.status.status = "completed" THEN "completed"
  ELSE "pending"

ResultOutcome(out) ==
  IF ~out.threw THEN "completed"
  ELSE IF out.message = "Job not found" THEN "not-found"
  ELSE IF out.message = "Job not ready" THEN "not-ready"
  ELSE IF out.message = "Job failed" THEN "failed"
  ELSE "transport"

C16_FailedUploadStays ==
  [][ /\ \A r \in BagToSet(upNet') :
           (NewlyAnswered(r) /\ r.resp = Rejected) =>
             jobs' = jobs /\ ~ValidSubmission(r.file, r.background)
      /\ \A r \in BagToSet(upNet) :
           (Delivered(r) /\ uploadResume(r.resp).threw) =>
             /\ upJobId' = 0
             /\ isUploading' = FALSE
             /\ upToast' = uploadResume(r.resp).message
             /\ genPhase' = "closed" /\ reqSeq' = 0 /\ net' = EmptyBag
             /\ jobs' = jobs
      /\ upJobId' # upJobId =>
           \E r \in BagToSet(upNet) :
             /\ Delivered(r) /\ r.resp.ok /\ r.resp.json
             /\ ~uploadResume(r.resp).threw
             /\ upJobId' = r.resp.job_id
      /\ genPhase' # "closed" => upJobId # 0 /\ genJobId' = upJobId
      /\ reqSeq' # reqSeq =>
           upJobId # 0 /\ \A q \in BagToSet(net') : q.job = upJobId ]_vars

C16_Witness ==
  /\ upToast = "Validation error"
  /\ ~isUploading
  /\ upJobId = 0
  /\ uploadedFile # NoFile
  /\ UpInFlight = 0
  /\ DOMAIN jobs = {}

\* C17: a document that is not of the supported format or is over the size
\* ceiling never becomes the selected file and is never sent to the backend.
C17_InvalidNeverSelected ==
  /\ uploadedFile # NoFile => Supported(uploadedFile) /\ WithinCeiling(uploadedFile)
  /\ \A r \in BagToSet(upNet) : Supported(r.file) /\ WithinCeiling(r.file)

\* ---------------------------------------------- claims on several jobs
\* C18: a step that changes one job's record leaves every other job's
\* record as it was, and a status read for a job returns that job's own
\* record (status, progress, message, result, error) and nothing of another.
C18_JobsIndependent ==
  [][ /\ \A a, b \in DOMAIN jobs :
           (a # b /\ jobs'[b] # jobs[b]) => jobs'[a] = jobs[a]
      /\ (probe' # probe /\ probe'.id \in DOMAIN jobs) =>
           /\ probe'.out = Returned(jobs[probe'.id])
           /\ probe'.out.status.job_id = probe'.id ]_vars

C18_Witness ==
  /\ probe.call = "getJobStatus" /\ probe.id = 1
  /\ probe.out.status.status = "analyzing" /\ probe.out.status.error = Absent
  /\ DOMAIN jobs = {1, 2}
  /\ jobs[1].status = "analyzing"
  /\ jobs[2].status = "failed" /\ jobs[2].progress = 50

\* ---------------------------------------------- claims on the client's reach
ClientVars == <<netVars, genVars, upVars>>

\* C19: a step of the client (a status read sent, answered or returned, the
\* interval stopped, the Generate page torn down, a submission made or
\* accepted) leaves the record of every existing job as it was, and whatever
\* the client has done, a job that is not terminal can still advance or fail.
C19_ClientLeavesJobs ==
  [][ /\ ClientVars' # ClientVars => \A id \in DOMAIN jobs : jobs'[id] = jobs[id]
      /\ \A id \in DOMAIN jobs :
           ~Terminal(jobs[id].status) =>
             (ENABLED AdvanceStage(id)) /\ (ENABLED FailStage(id)) ]_vars

C19_Witness ==
  /\ genPhase = "unmounted"
  /\ DOMAIN jobs = {1, 2} /\ upJobId = 2 /\ genJobId = 2
  /\ processingStage = "roasting"
  /\ jobs[2].status = "completed"
  /\ jobs[1].status = "generating"

\* ---------------------------------------------- claims on termination
\* C20: every job of the store reaches completed or failed in the end,
\* whether a client reads its status or not, and the simulated pipeline of
\* the Generate page reaches complete.
C20_EventuallyTerminal ==
  /\ \A id \in 1..MaxJobs :
       (id \in DOMAIN jobs) ~> (id \in DOMAIN jobs /\ Terminal(jobs[id].status))
  /\ <>(simStage = "complete" /\ simVideoUrl # Absent)

C20_Witness ==
  /\ DOMAIN jobs = 1..MaxJobs
  /\ \A id \in DOMAIN jobs : Terminal(jobs[id].status) /\ seen[id] = <<>>
  /\ \E id \in DOMAIN jobs : jobs[id].status = "failed" /\ jobs[id].progress = 0
  /\ simPc = 4

\* ---------------------------------------------- claims on the exposed video
\* C21: the Generate page sets the video URL only when a status read for its
\* job returned completed; the URL is null while the job is not completed,
\* and once a failed status or a read error has been handled (the error is
\* set) the URL is never set.
C21_UrlOnlyAfterCompleted ==
  [][ /\ videoUrl' # NoUrl =>
           /\ genJobId' \in DOMAIN jobs'
           /\ jobs'[genJobId'].status = "completed"
           /\ videoUrl' = getVideoUrl(genJobId')
      /\ error # Absent => videoUrl' = videoUrl ]_vars

\* ---------------------------------------------- claims on the page's failures
\* the status request whose response the page handles in this step
GenHandled(r) == r \in InFlight("gen") /\ r.phase = "answered" /\ net' = Take(r)

C23_BackgroundEnumerated ==
  /\ backgroundVideo \in Backgrounds
  /\ \A r \in BagToSet(upNet) : r.background \in Backgrounds
  /\ (upToast = Absent /\ upJobId = 0) => backgroundVideo = "subway_surfer"

C23_Witness ==
  \E r \in BagToSet(upNet) :
    /\ r.background = "templerun"
    /\ r.phase = "answered"
    /\ r.resp \in {Accepted(id) : id \in 1..MaxPolled}

\* C30: the upload section never has two upload requests in flight; a request
\* is started only with a file selected, nothing in flight and the uploading
\* flag clear, and the step sets the flag; without a file handleGenerateRoast
\* starts nothing; after a successful upload the flag stays true and no
\* further upload is started.
C30_OneUploadInFlight ==
  [][ /\ UpInFlight <= 1
      /\ UpInFlight' > UpInFlight =>
           /\ uploadedFile # NoFile
           /\ UpInFlight = 0
           /\ ~isUploading
           /\ isUploading'
      /\ uploadedFile = NoFile => UpInFlight' <= UpInFlight
      /\ upJobId' # 0 => isUploading' /\ UpInFlight' = 0 ]_vars

C30_Witness ==
  /\ UpInFlight = 1
  /\ isUploading
  /\ upToast \in {"Validation error", "Failed to fetch"}
  /\ Cardinality(Issued) = 1

\* ------------------------------------------ claims on the page's life cycle
\* C25: a Generate page opened without a jobId has shown one error toast and
\* navigated home, has issued no status read, has no interval, and its stage,
\* video URL and error are still the initial ones.
C25_NoJobIdGoesHome ==
  (genPhase = "mounted" /\ genJobId = 0) =>
    /\ toasts.error = 1 /\ toasts.success = 0
    /\ navigated
    /\ reqSeq = 0 /\ InFlightCount("gen") = 0
    /\ pollInterval = 0
    /\ processingStage = "analyzing" /\ videoUrl = NoUrl /\ error = Absent

C25_Witness ==
  /\ genPhase = "mounted" /\ genJobId = 0
  /\ navigated
  /\ Cardinality(Issued) = MaxPolled

\* C27: once the Generate page of a job has handled a terminal outcome (its
\* success or error notification has fired), no status response handled later
\* fires a notification again or changes the stage, the video URL or the error.
C27_TerminalHandledOnce ==
  [][ \A r \in InFlight("gen") :
        (GenHandled(r) /\ genJobId # 0 /\ toasts.success + toasts.error > 0) =>
          UNCHANGED <<processingStage, videoUrl, error, toasts>> ]_vars

\* C29: a status response for another job than the page's current jobId (a
\* read started before the jobId changed) changes none of the processing
\* stage, the error and the video URL of the page.
C29_StaleResponseIgnored ==
  [][ \A r \in InFlight("gen") :
        (GenHandled(r) /\ r.job # genJobId) =>
          UNCHANGED <<processingStage, videoUrl, error>> ]_vars

\* ------------------------------------- claims on the poller's callback
\* C28: when the onProgress callback throws, the promise is rejected with
\* what it threw as the last act of the run: the throw follows the callback
\* invocation for the status just read, nothing is issued, scheduled or in
\* flight afterwards, and the promise is not resolved even when that status
\* was completed.
C28_CallbackThrowRejects ==
  \A i \in LogIdx :
    pollLog[i].ev = "threw" =>
      /\ pollOnProgress
      /\ i >= 3
      /\ pollLog[i - 1].ev = "progress" /\ pollLog[i - 2].ev = "read"
      /\ pollLog[i - 1].status = pollLog[i].status
      /\ Len(pollLog) = i + 1
      /\ pollLog[i + 1].ev = "reject"
      /\ promise.state = "rejected"
      /\ promise.reason = pollLog[i].msg
      /\ Quiet

C28_Witness ==
  /\ promise.state = "rejected" /\ promise.reason = "callback error"
  /\ \E i \in LogIdx : pollLog[i].ev = "threw" /\ pollLog[i].status.status = "completed"
  /\ Cardinality(ReadsReturned) >= 2

\* ------------------------------------------ claims on the poller's progress
PolledTerminal ==
  /\ pollJobId \in DOMAIN jobs
  /\ Terminal(jobs[pollJobId].status)
  /\ promise.state = "pending"
  /\ reqSeq < MaxReads

SettledAsJob ==
  /\ pollJobId \in DOMAIN jobs
  /\ \/ jobs[pollJobId].status = "completed" /\ promise.state = "resolved"
     \/ jobs[pollJobId].status = "failed" /\ promise.state = "rejected"

CallbackEverThrew == \E i \in LogIdx : pollLog[i].ev = "threw"

\* C24 as stated: with every read answered by the store, a pending
\* pollJobStatus whose job has become terminal ends resolved when the job is
\* completed and rejected when it is failed.
C24_Original == PolledTerminal ~> SettledAsJob

\* C24 (amended): with every read answered by the store, a pending
\* pollJobStatus whose job has become terminal settles: resolved when the job
\* is completed and rejected when it is failed, unless the onProgress
\* callback threw, which rejects it.  While no read has returned a terminal
\* status and no callback has thrown the promise stays pending with exactly
\* one read in flight or one timer scheduled, and every scheduled timer
\* issues the next read; nothing else settles the promise.
C24_SettlesWhenTerminal ==
  /\ PolledTerminal ~>
       (Settled /\ (SettledAsJob \/ (CallbackEverThrew /\ promise.state = "rejected")))
  /\ [](Settled =>
          \/ CallbackEverThrew
          \/ \E i \in ReadsReturned : Terminal(pollLog[i].status.status)
          \/ \E i \in LogIdx : pollLog[i].ev = "readfail")
  /\ []((pollJobId # 0 /\ ~Settled) => InFlightCount("poll") + pollTimers = 1)
  /\ (pollTimers > 0 /\ reqSeq < MaxReads) ~> (InFlightCount("poll") = 1)

C24_Witness ==
  /\ promise.state = "rejected"
  /\ ~CallbackEverThrew
  /\ pollJobId \in DOMAIN jobs
  /\ jobs[pollJobId].status = "failed"
  /\ Cardinality(ReadsReturned) = MaxReads

\* ------------------------------------- claims on the simulated Index page
\* C26: when handleFileUpload sets a file on the simulated Index page while no
\* processing stage is active, startProcessing runs: the stage becomes
\* analyzing and its first timer is pending; and the video URL is set exactly
\* when the stage is complete.
C26_AutoStartOnUpload ==
  [][ /\ (idxUploadedFile = NoFile /\ idxUploadedFile' # NoFile
             /\ idxProcessingStage = Absent) =>
           /\ idxProcessingStage' = "analyzing"
           /\ idxTimers' # EmptyBag
      /\ (idxVideoUrl' # Absent) <=> (idxProcessingStage' = "complete") ]_vars
====
